---- MODULE Spec2Model ----
(***************************************************************************)
(* ALSA playback demos of alsa-sound-playground: a generated tone is kept  *)
(* in a sample buffer, byte-order normalised for the S16_BE wire format    *)
(* and handed to the blocking PCM sink in write-frames.                    *)
(*                                                                         *)
(*   minPcmStereo         src/minPcmStereo.cpp      (ring segmenter)       *)
(*   minPcmStereoOpt      src/unnamed/part_000      (lookup table, frames) *)
(*   minPcm               src/unnamed/part_001      (mono, whole buffer)   *)
(*   minPcmBitDepthConv   src/minPcmBitDepthConv.cpp (24 -> 16 bit, mono)  *)
(*                                                                         *)
(* The sink (snd_pcm_open, snd_pcm_set_params, snd_pcm_writei,             *)
(* snd_pcm_recover, snd_pcm_drain, snd_pcm_close) is the environment: its  *)
(* return values are chosen nondeterministically.                          *)
(*                                                                         *)
(* Spec runs the four programs on scaled-down configurations, SpecRef runs *)
(* minPcmStereo as it is built; SpecFill, SpecNormalizer and SpecReducer   *)
(* run the buffer fill, the byte-order normalisation and the bit-depth     *)
(* reduction alone, on their own arguments.                                *)
(***************************************************************************)
EXTENDS Integers, Sequences, FiniteSets, TLC

\* ------------------------------------------------------------------ bounds
\* Spec scales the one-second buffer and the playback time down; the
\* configuration itself is drawn in Init.  SpecRef runs minPcmStereo with the
\* constants of the source.
MaxRate == 4

MaxPasses == 3

\* ------------------------------------------------------- program constants
BUFFER_SIZE == 96000

PROC_SIN_FRAME_SIZE == 1152

StereoSimulationDurSec == 30

AUD_CHANNELS == 2

SINE_FREQ == 1000

DUMPING_FACTOR_IN_SHORTS == 23198

Programs == {"minPcmStereo", "minPcmStereoOpt", "minPcm", "minPcmBitDepthConv"}

\* Negative return codes of the sink (-EPIPE, -EBADFD).
SinkErrors == {-32, -77}

\* --------------------------------------------------------- generated tone
\* The 1 kHz period at 48 kHz, damped by 3 dB: the values minPcmStereo
\* computes for iii < 48 and prints, and minPcmStereoOpt holds as literals.
monoSine1kHzLoopUp ==
  << 0, 3027, 6003, 8877, 11598, 14121, 16402, 18403, 20089, 21431, 22406, 22998,
     23197, 22998, 22406, 21431, 20089, 18403, 16402, 14121, 11598, 8877, 6003, 3027,
     0, -3027, -6003, -8877, -11598, -14121, -16402, -18403, -20089, -21431, -22406,
     -22998, -23197, -22998, -22406, -21431, -20089, -18403, -16402, -14121, -11598,
     -8877, -6003, -3027 >>

\* static_cast<short>(SHRT_MAX * sin(a * angleIncrement)) of minPcm, a < 48.
minPcmSine ==
  << 0, 4276, 8480, 12539, 16383, 19947, 23169, 25995, 28377, 30272, 31650, 32486,
     32767, 32486, 31650, 30272, 28377, 25995, 23169, 19947, 16383, 12539, 8480, 4276,
     0, -4276, -8480, -12539, -16383, -19947, -23169, -25995, -28377, -30272, -31650,
     -32486, -32767, -32486, -31650, -30272, -28377, -25995, -23169, -19947, -16383,
     -12539, -8480, -4276 >>

\* The int32_t argument INT24_MAX * sin(a * angleIncrement) of
\* minPcmBitDepthConv, a < 48 (the double is truncated by the conversion).
int24Sine ==
  << 0, 1094932, 2171131, 3210180, 4194303, 5106660, 5931640, 6655129, 7264746,
     7750062, 8102772, 8316841, 8388607, 8316841, 8102772, 7750062, 7264746, 6655129,
     5931640, 5106660, 4194303, 3210180, 2171131, 1094932, 0, -1094932, -2171131,
     -3210180, -4194303, -5106660, -5931640, -6655129, -7264746, -7750062, -8102772,
     -8316841, -8388607, -8316841, -8102772, -7750062, -7264746, -6655129, -5931640,
     -5106660, -4194303, -3210180, -2171131, -1094932 >>

\* ------------------------------------------------------------ arithmetic
\* C++ integer division truncates toward zero.
TruncDiv(a, b) == IF a >= 0 THEN a \div b ELSE -((-a) \div b)

\* (int16_t) / reinterpret_cast<uint16_t*>: the 16-bit pattern of v, unsigned.
ToU16(v) == v % 65536

\* (int16_t) of an int32_t: the low 16 bits, two's complement.
ToInt16(v) == LET u == v % 65536 IN IF u >= 32768 THEN u - 65536 ELSE u

\* Faulty variant: the damping comes before the clamp.
getTruncatedSampleDampFirst(audioSample24bit) ==
  LET shifted == (audioSample24bit + 128) \div 256
      damped == TruncDiv(shifted * 29204, 32768)
      clamped == IF damped < -32768 THEN -32768
                 ELSE IF damped > 32767 THEN 32767 ELSE damped
  IN  ToInt16(clamped)

\* res >> 8 of a negative int32_t is the arithmetic shift (the floor).
getTruncatedSample(audioSample24bit) ==
  LET shifted == (audioSample24bit + 128) \div 256
      clamped == IF shifted < -32768 THEN -32768
                 ELSE IF shifted > 32767 THEN 32767 ELSE shifted
  IN  ToInt16(TruncDiv(clamped * 29204, 32768))

\* ------------------------------------------------------------ byte order
Swap16(x) == (x % 256) * 256 + (x \div 256)

Swap32(x) ==
  (x % 256) * 16777216 + ((x \div 256) % 256) * 65536
    + ((x \div 65536) % 256) * 256 + (x \div 16777216)

\* Faulty variant: the low byte is moved up and the high byte is lost.
htonsShift(x, littleEndian) == IF littleEndian THEN (x * 256) % 65536 ELSE x

htons(x, littleEndian) == IF littleEndian THEN Swap16(x) ELSE x

htonl(x, littleEndian) == IF littleEndian THEN Swap32(x) ELSE x

\* Faulty variant: the comparison reversed.
runningOnLittleEndianHostReversed(littleEndian) == htonl(23, littleEndian) = 23

runningOnLittleEndianHost(littleEndian) == htonl(23, littleEndian) # 23

\* The element x after convToBigEndian has run over the array n times.
RECURSIVE htonsTimes(_, _, _)
htonsTimes(x, n, littleEndian) ==
  IF n = 0 THEN x ELSE htonsTimes(htons(x, littleEndian), n - 1, littleEndian)

\* The 16-bit big-endian sample the sink decodes from a uint16_t held in the
\* memory of the host: on a little-endian host the low byte comes first.
WireSample(x, littleEndian) == IF littleEndian THEN Swap16(x) ELSE x

\* ------------------------------------------------------------ buffer fill
\* static_cast<int16_t>(INT16_MAX * (DAMPENING_FACTOR * sin(iii * angleIncrement)))
\* for iii < 48000.  angleIncrement is computed with _PI = 3.14159265, a little
\* less than pi, so 48 samples are a little less than a period and the angle
\* of a sample falls behind that of the sample 48 k places before it: in six
\* of the 48 phases the truncated value changes by one within the second.
PhaseDrift(iii) ==
  LET phase == iii % 48
  IN  CASE phase = 18 /\ iii >= 24690 -> 1
        [] phase = 22 /\ iii >= 32086 -> 1
        [] phase = 23 /\ iii >= 43655 -> 1
        [] phase = 42 /\ iii >= 24666 -> -1
        [] phase = 46 /\ iii >= 32062 -> -1
        [] phase = 47 /\ iii >= 43631 -> -1
        [] OTHER -> 0

\* The double INT16_MAX * (DAMPENING_FACTOR * sin(iii * angleIncrement)) of
\* minPcmStereo for iii < 48, in thousandths (the fourth decimal is dropped).
dampedSine1000 ==
  << 0, 3027849, 6003892, 8877206, 11598629, 14121596, 16402939, 18403623,
     20089416, 21431473, 22406832, 22998803, 23197259, 22998803, 22406832,
     21431473, 20089416, 18403623, 16402939, 14121596, 11598629, 8877206,
     6003892, 3027850, 0, -3027849, -6003892, -8877206, -11598629, -14121596,
     -16402939, -18403623, -20089415, -21431473, -22406832, -22998803,
     -23197259, -22998803, -22406832, -21431473, -20089416, -18403623,
     -16402939, -14121596, -11598629, -8877207, -6003892, -3027850 >>

\* Faulty variant: the double is rounded to the nearest integer.
StaticCastInt16Rounded(thousandths) ==
  ToInt16(IF thousandths >= 0 THEN (thousandths + 500) \div 1000
          ELSE -((500 - thousandths) \div 1000))

\* static_cast<int16_t>(double), the double given in thousandths: the
\* fraction is discarded.
StaticCastInt16(thousandths) == ToInt16(TruncDiv(thousandths, 1000))

\* Faulty variant: DAMPENING_FACTOR is left out of the product.
tempValUndamped(iii) == minPcmSine[(iii % 48) + 1]

tempVal(iii) == StaticCastInt16(dampedSine1000[(iii % 48) + 1]) + PhaseDrift(iii)

\* Faulty variant: _buffer[a+1] is not written and stays 0.
StereoSampleLeftOnly(idx) == IF idx % 2 = 0 THEN ToU16(tempVal(idx \div 2)) ELSE 0

\* minPcmStereo: _buffer[a] = _buffer[a+1] = tempVal with a = 2 * iii; the
\* element at index idx (from 0).
StereoSample(idx) == ToU16(tempVal(idx \div 2))

\* minPcm: _buffer[a] = tempVal.  The mono programs are run with buffers
\* shorter than the 48 samples of the table only.
MonoSample(idx) == ToU16(minPcmSine[(idx % 48) + 1])

\* minPcmBitDepthConv: _buffer[a] = (short) getTruncatedSample(...).
BitDepthSample(idx) == ToU16(getTruncatedSample(int24Sine[(idx % 48) + 1]))

\* minPcmStereoOpt: SINES_IN_FRAME copies of the period, every sample pushed
\* AUD_CHANNELS times.
RECURSIVE Repeat(_, _)
Repeat(s, n) == IF n = 0 THEN << >> ELSE s \o Repeat(s, n - 1)

fillBuffer(monoSigBuff, sinesInFrame) ==
  LET once == [k \in 1..(Len(monoSigBuff) * AUD_CHANNELS) |->
                 ToU16(monoSigBuff[((k - 1) \div AUD_CHANNELS) + 1])]
  IN  Repeat(once, sinesInFrame)

SINES_IN_FRAME(p) == p.PROC_FRAME_SIZE \div p.SAMPLES_PER_SINE

\* sizeof(_buffer)/sizeof(uint16_t), tempWriteBuff.size()
BufferSize(p) ==
  CASE p.prog = "minPcmStereo" -> p.SAMPLE_RATE * 2
    [] p.prog = "minPcmStereoOpt" ->
         SINES_IN_FRAME(p) * p.SAMPLES_PER_SINE * AUD_CHANNELS
    [] OTHER -> p.SAMPLE_RATE

\* The element at index idx (from 0) of the buffer as the program fills it,
\* in host order.
GeneratedAt(p, idx) ==
  CASE p.prog = "minPcmStereo" -> StereoSample(idx)
    [] p.prog = "minPcm" -> MonoSample(idx)
    [] p.prog = "minPcmBitDepthConv" -> BitDepthSample(idx)
    [] p.prog = "minPcmStereoOpt" ->
         fillBuffer(SubSeq(monoSine1kHzLoopUp, 1, p.SAMPLES_PER_SINE),
                    SINES_IN_FRAME(p))[idx + 1]

\* ------------------------------------------------------------- segmenter
NextFramePosEnd(pos, frameSize) == pos + (frameSize * 2)

FrameWraps(nextFramePosEnd, sampleCount) == nextFramePosEnd > sampleCount

\* Faulty variant: the tail is taken one sample short.
LastBuffSamplesAmountOffByOne(sampleCount, pos) == sampleCount - pos - 1

LastBuffSamplesAmount(sampleCount, pos) == sampleCount - pos

\* Faulty variant: the frame is counted in stereo frames, not in samples.
FirstBuffSamplesAmountInFrames(frameSize, lastBuffSamplesAmount) ==
  frameSize - lastBuffSamplesAmount

FirstBuffSamplesAmount(frameSize, lastBuffSamplesAmount) ==
  (frameSize * 2) - lastBuffSamplesAmount

\* int writePos = writePosReminder;
\* Faulty variant: every pass starts at the beginning of the buffer.
PassStartPosReset(reminder) == 0

PassStartPos(reminder) == reminder

\* writePos += frames*2
\* Faulty variant: the cursor is not advanced.
AdvanceWritePosNone(pos, accepted) == pos

\* Faulty variant: the cursor advances by frames, not by samples.
AdvanceWritePosByFrames(pos, accepted) == pos + accepted

AdvanceWritePos(pos, accepted) == pos + accepted * 2

\* frames > 0 && frames < requested
\* Faulty variant: a return of 0 counts as a short write.
IsShortWriteFromZero(accepted, requested) == accepted >= 0 /\ accepted < requested

IsShortWrite(accepted, requested) == accepted > 0 /\ accepted < requested

\* ------------------------------------------------------------------ state
VARIABLES
  params,             \* the configuration of the program that runs
  hostLittleEndian,   \* byte order of the host
  pc,                 \* position in main
  handle,             \* snd_pcm_t*: "null", "open" or "closed"
  convCalls,          \* how often convToBigEndian has run over the buffer
  i,                  \* outer loop counter
  j,                  \* inner loop counter of minPcmStereoOpt
  writePos,
  writePosReminder,
  currBuff,           \* the samples behind the pointer given to snd_pcm_writei
  frames,             \* snd_pcm_sframes_t frames
  log,                \* what the loop printed about the last write
  \* history
  spliced,            \* the frame in currBuff was materialised by the splice
  ret,                \* what the last snd_pcm_writei returned
  prev,               \* the last write the loop has finished with
  fatal,              \* a recovery has failed
  allFull,            \* every write so far was accepted in full
  emitted,            \* frames given to the sink while allFull
  recoverCalls,       \* calls of snd_pcm_recover for the last write
  drained,            \* snd_pcm_drain was called
  \* the functions of the programs taken alone
  arg,                \* the arguments a function is called with
  res                 \* the tuple of what it has returned, empty before the call

vars == << params, hostLittleEndian, pc, handle, convCalls, i, j, writePos,
           writePosReminder, currBuff, frames, log, spliced, ret, prev, fatal,
           allFull, emitted, recoverCalls, drained, arg, res >>

cfgVars == << params, hostLittleEndian >>

fnVars == << arg, res >>

IsStereo == params.prog = "minPcmStereo"
IsOpt == params.prog = "minPcmStereoOpt"
IsMono == params.prog \in {"minPcm", "minPcmBitDepthConv"}

writeFrameSize == params.PROC_FRAME_SIZE

buffSampleCount == BufferSize(params)

\* _buffer and tempWriteBuff are written by the fill and by convToBigEndian
\* only, each over the whole array: the content is the fill with htons
\* applied convCalls times.  An index outside the array reads an
\* indeterminate value, written 65536 (no uint16_t).
BufAt(idx) ==
  IF idx >= 0 /\ idx < buffSampleCount
  THEN htonsTimes(GeneratedAt(params, idx), convCalls, hostLittleEndian)
  ELSE 65536

buffer == [k \in 1..buffSampleCount |-> BufAt(k - 1)]

\* std::copy_n(_buffer + from, n, ...), and what snd_pcm_writei reads
\* through a pointer to _buffer + from.
CopyN(from, n) == [k \in 1..n |-> BufAt(from + k - 1)]

\* _tempWriteBuff after the two copy_n calls.
SpliceFrame(pos, frameSize) ==
  LET last  == LastBuffSamplesAmount(buffSampleCount, pos)
      first == FirstBuffSamplesAmount(frameSize, last)
  IN  CopyN(pos, last) \o CopyN(0, first)

\* currBuffPtr = _buffer + writePos
ViewFrame(pos, frameSize) == CopyN(pos, frameSize * 2)

simulationDurSec == params.PLAYBACK_TIME_SEC

\* The frame count passed to snd_pcm_writei.
Requested ==
  IF IsMono THEN buffSampleCount ELSE params.PROC_FRAME_SIZE

NoPrev == [valid |-> FALSE, pos |-> 0, spliced |-> FALSE, head |-> 0,
           reminder |-> 0, conv |-> 0, requested |-> 0, ret |-> 0, frames |-> 0]

\* The configurations of Spec: the buffer holds one "second" of SAMPLE_RATE
\* frames, a frame is no longer than the buffer, and for minPcmStereoOpt the
\* static_asserts of namespace params hold.
Configs ==
  { [prog |-> pr, SAMPLE_RATE |-> r, PROC_FRAME_SIZE |-> f,
     SAMPLES_PER_SINE |-> s, PLAYBACK_TIME_SEC |-> MaxPasses] :
      pr \in Programs, r \in 1..MaxRate, f \in 1..MaxRate, s \in 0..MaxRate }

ValidConfig(p) ==
  CASE p.prog = "minPcmStereo" ->
         p.PROC_FRAME_SIZE <= p.SAMPLE_RATE /\ p.SAMPLES_PER_SINE = 0
    [] p.prog = "minPcmStereoOpt" ->
         /\ p.SAMPLES_PER_SINE >= 2
         /\ p.PROC_FRAME_SIZE % p.SAMPLES_PER_SINE = 0
         /\ p.PROC_FRAME_SIZE <= p.SAMPLE_RATE
    [] OTHER ->
         p.PROC_FRAME_SIZE = p.SAMPLE_RATE /\ p.SAMPLES_PER_SINE = 0

InitState(p, le) ==
  /\ params = p
  /\ hostLittleEndian = le
  /\ pc = "open"
  /\ handle = "null"
  /\ convCalls = 0
  /\ i = 0
  /\ j = 0
  /\ writePos = 0
  /\ writePosReminder = 0
  /\ currBuff = << >>
  /\ frames = 0
  /\ log = "none"
  /\ spliced = FALSE
  /\ ret = 0
  /\ prev = NoPrev
  /\ fatal = FALSE
  /\ allFull = TRUE
  /\ emitted = 0
  /\ recoverCalls = 0
  /\ drained = FALSE

\* No function is looked at alone while a program runs.
NoCall == arg = << >> /\ res = << >>

Init ==
  \E p \in Configs, le \in BOOLEAN : ValidConfig(p) /\ InitState(p, le) /\ NoCall

\* ----------------------------------------------------------- device setup
\* snd_pcm_open; on an error the program exits.
Open ==
  /\ pc = "open"
  /\ \E err \in {0} \cup SinkErrors :
       IF err < 0
       THEN pc' = "exit" /\ UNCHANGED handle
       ELSE pc' = "set_params" /\ handle' = "open"
  /\ UNCHANGED << cfgVars, fnVars, log, i, j, writePos, writePosReminder, currBuff,
                  frames, spliced, ret, prev, fatal, allFull, emitted, convCalls,
                  recoverCalls, drained >>

\* snd_pcm_set_params; on an error the program exits with the handle open.
SetParams ==
  /\ pc = "set_params"
  /\ \E err \in {0} \cup SinkErrors :
       pc' = IF err < 0 THEN "exit" ELSE "prepare"
  /\ UNCHANGED << cfgVars, fnVars, log, handle, i, j, writePos, writePosReminder,
                  currBuff, frames, spliced, ret, prev, fatal, allFull, emitted,
                  convCalls, recoverCalls, drained >>

\* if(runningOnLittleEndianHost()) convToBigEndian(_buffer);
Normalize ==
  /\ pc = "prepare"
  /\ ~IsOpt
  /\ IF runningOnLittleEndianHost(hostLittleEndian)
     THEN convCalls' = convCalls + 1
     ELSE UNCHANGED convCalls
  /\ pc' = "outer"
  /\ UNCHANGED << cfgVars, fnVars, handle, i, j, writePos, writePosReminder, currBuff,
                  frames, log, spliced, ret, prev, fatal, allFull, emitted,
                  recoverCalls, drained >>

\* ------------------------------------------------------------ sink calls
\* frames = snd_pcm_writei(handle, currBuffPtr, n)
WriteiReturns(r) ==
  /\ pc = "writei"
  /\ frames' = r
  /\ ret' = r
  /\ allFull' = (allFull /\ r = Requested)
  /\ pc' = IF r < 0 THEN "recover" ELSE "check"
  /\ emitted' = IF allFull THEN emitted + 1 ELSE emitted
  /\ recoverCalls' = 0
  /\ UNCHANGED << cfgVars, fnVars, handle, i, j, writePos, writePosReminder,
                  currBuff, log, spliced, prev, fatal, convCalls, drained >>

Writei == \E r \in SinkErrors \cup (0..Requested) : WriteiReturns(r)

\* The sink that accepts every frame in full.
WriteiFull == WriteiReturns(Requested)

\* Faulty variant: a recovery that fails is tried once more.
RecoverWithRetry ==
  /\ pc = "recover"
  /\ \E r \in {0} \cup SinkErrors :
       /\ frames' = r
       /\ pc' = IF r < 0 /\ recoverCalls = 0 THEN "recover" ELSE "check"
  /\ recoverCalls' = recoverCalls + 1
  /\ UNCHANGED << cfgVars, fnVars, handle, i, j, writePos, writePosReminder,
                  currBuff, log, spliced, ret, prev, fatal, allFull, emitted,
                  convCalls, drained >>

\* if (frames < 0) frames = snd_pcm_recover(handle, frames, 0);
Recover ==
  /\ pc = "recover"
  /\ \E r \in {0} \cup SinkErrors : frames' = r
  /\ recoverCalls' = recoverCalls + 1
  /\ pc' = "check"
  /\ UNCHANGED << cfgVars, fnVars, handle, i, j, writePos, writePosReminder,
                  currBuff, log, spliced, ret, prev, fatal, allFull, emitted,
                  convCalls, drained >>

\* err = snd_pcm_drain(handle); an error is printed and ignored.
Drain ==
  /\ pc = "drain"
  /\ \E err \in {0} \cup SinkErrors : drained' = TRUE
  /\ pc' = "close"
  /\ UNCHANGED << cfgVars, fnVars, log, handle, i, j, writePos, writePosReminder,
                  currBuff, frames, spliced, ret, prev, fatal, allFull, emitted,
                  convCalls, recoverCalls >>

\* snd_pcm_close(handle); return 0;
Close ==
  /\ pc = "close"
  /\ handle' = "closed"
  /\ pc' = "done"
  /\ UNCHANGED << cfgVars, fnVars, i, j, writePos, writePosReminder, currBuff,
                  frames, log, spliced, ret, prev, fatal, allFull, emitted,
                  convCalls, recoverCalls, drained >>

\* The write the loop has just finished with, for the history.
Finished ==
  [valid |-> TRUE, pos |-> writePos, spliced |-> spliced,
   head |-> writePosReminder, reminder |-> writePosReminder,
   conv |-> convCalls, requested |-> Requested, ret |-> ret, frames |-> frames]

\* ----------------------------------------------------------- minPcmStereo
\* for (i = 0; i < _simulationDurSec; i++) { int writePos = writePosReminder;
StereoOuter ==
  /\ pc = "outer"
  /\ IsStereo
  /\ IF i < simulationDurSec
     THEN writePos' = PassStartPos(writePosReminder) /\ pc' = "inner"
     ELSE UNCHANGED writePos /\ pc' = "drain"
  /\ UNCHANGED << cfgVars, fnVars, handle, i, j, writePosReminder, currBuff,
                  frames, log, spliced, ret, prev, fatal, allFull, emitted,
                  convCalls, recoverCalls, drained >>

\* The inner loop's condition holds: the next frame is the splice of the
\* buffer's tail and head, or a view into the buffer.
StereoNextFrame ==
  /\ pc = "inner"
  /\ IsStereo
  /\ writePos < buffSampleCount
  /\ IF FrameWraps(NextFramePosEnd(writePos, writeFrameSize), buffSampleCount)
     THEN /\ currBuff' = SpliceFrame(writePos, writeFrameSize)
          /\ writePosReminder' =
               FirstBuffSamplesAmount(writeFrameSize,
                                      LastBuffSamplesAmount(buffSampleCount, writePos))
          /\ spliced' = TRUE
     ELSE /\ currBuff' = ViewFrame(writePos, writeFrameSize)
          /\ spliced' = FALSE
          /\ UNCHANGED writePosReminder
  /\ pc' = "writei"
  /\ UNCHANGED << cfgVars, fnVars, handle, i, j, writePos, frames, log, ret,
                  prev, fatal, allFull, emitted, convCalls, recoverCalls, drained >>

\* The inner loop's condition fails: the pass is over.
StereoPassEnd ==
  /\ pc = "inner"
  /\ IsStereo
  /\ ~(writePos < buffSampleCount)
  /\ i' = i + 1
  /\ pc' = "outer"
  /\ UNCHANGED << cfgVars, fnVars, log, handle, j, writePos, writePosReminder,
                  currBuff, frames, spliced, ret, prev, fatal, allFull, emitted,
                  convCalls, recoverCalls, drained >>

\* if (frames < 0) { printf; break; }  if (frames > 0 && frames < size) printf;
\* writePos += frames*2;   The break leaves the inner loop only.
StereoCheck ==
  /\ pc = "check"
  /\ IsStereo
  /\ prev' = Finished
  /\ IF frames < 0
     THEN /\ fatal' = TRUE
          /\ log' = "write failed"
          /\ i' = i + 1
          /\ pc' = "outer"
          /\ UNCHANGED writePos
     ELSE /\ log' = IF IsShortWrite(frames, writeFrameSize) THEN "short write" ELSE "none"
          /\ writePos' = AdvanceWritePos(writePos, frames)
          /\ pc' = "inner"
          /\ UNCHANGED << fatal, i >>
  /\ UNCHANGED << cfgVars, fnVars, handle, j, writePosReminder, currBuff, frames,
                  spliced, ret, allFull, emitted, convCalls, recoverCalls, drained >>

\* -------------------------------------------------------- minPcmStereoOpt
\* tempWriteBuff = prepWriteBuffer(monoSine1kHzLoopUp): the condition names
\* the function runningOnLittleEndianHost without calling it, so it holds on
\* every host and convToBigEndian always runs.
OptPrepWriteBuffer ==
  /\ pc = "prepare"
  /\ IsOpt
  /\ convCalls' = convCalls + 1
  /\ pc' = "outer"
  /\ UNCHANGED << cfgVars, fnVars, handle, i, j, writePos, writePosReminder, currBuff,
                  frames, log, spliced, ret, prev, fatal, allFull, emitted,
                  recoverCalls, drained >>

\* for (uint32_t i = 0u; i < params::PLAYBACK_TIME_SEC; ++i)
OptOuter ==
  /\ pc = "outer"
  /\ IsOpt
  /\ IF i < params.PLAYBACK_TIME_SEC
     THEN j' = 0 /\ pc' = "inner"
     ELSE UNCHANGED j /\ pc' = "drain"
  /\ UNCHANGED << cfgVars, fnVars, handle, i, writePos, writePosReminder,
                  currBuff, frames, log, spliced, ret, prev, fatal, allFull,
                  emitted, convCalls, recoverCalls, drained >>

\* for (j = 0u; j < SAMPLE_RATE / PROC_FRAME_SIZE; ++j): the frame is always
\* the start of tempWriteBuff.
OptNextFrame ==
  /\ pc = "inner"
  /\ IsOpt
  /\ j < params.SAMPLE_RATE \div params.PROC_FRAME_SIZE
  /\ currBuff' = CopyN(0, params.PROC_FRAME_SIZE * AUD_CHANNELS)
  /\ pc' = "writei"
  /\ UNCHANGED << cfgVars, fnVars, handle, i, j, writePos, writePosReminder,
                  frames, log, spliced, ret, prev, fatal, allFull, emitted,
                  convCalls, recoverCalls, drained >>

OptPassEnd ==
  /\ pc = "inner"
  /\ IsOpt
  /\ ~(j < params.SAMPLE_RATE \div params.PROC_FRAME_SIZE)
  /\ i' = i + 1
  /\ pc' = "outer"
  /\ UNCHANGED << cfgVars, fnVars, handle, j, writePos, writePosReminder,
                  currBuff, frames, log, spliced, ret, prev, fatal, allFull,
                  emitted, convCalls, recoverCalls, drained >>

\* The break leaves the inner loop only; the else branch prints nothing.
OptCheck ==
  /\ pc = "check"
  /\ IsOpt
  /\ prev' = Finished
  /\ IF frames < 0
     THEN /\ fatal' = TRUE
          /\ log' = "write failed"
          /\ i' = i + 1
          /\ pc' = "outer"
          /\ UNCHANGED j
     ELSE /\ log' = IF IsShortWrite(frames, params.PROC_FRAME_SIZE)
                    THEN "short write" ELSE "none"
          /\ j' = j + 1
          /\ pc' = "inner"
          /\ UNCHANGED << fatal, i >>
  /\ UNCHANGED << cfgVars, fnVars, handle, writePos, writePosReminder, currBuff,
                  frames, spliced, ret, allFull, emitted, convCalls,
                  recoverCalls, drained >>

\* ------------------------------------------- minPcm, minPcmBitDepthConv
\* for (i = 0; i < _simulationDurSec; i++): the whole buffer is written.
MonoLoop ==
  /\ pc = "outer"
  /\ IsMono
  /\ IF i < simulationDurSec
     THEN currBuff' = CopyN(0, buffSampleCount) /\ pc' = "writei"
     ELSE UNCHANGED currBuff /\ pc' = "drain"
  /\ UNCHANGED << cfgVars, fnVars, handle, i, j, writePos, writePosReminder,
                  frames, log, spliced, ret, prev, fatal, allFull, emitted,
                  convCalls, recoverCalls, drained >>

\* The break leaves the only loop; the else branch prints "ALL GOOD".
MonoCheck ==
  /\ pc = "check"
  /\ IsMono
  /\ prev' = Finished
  /\ IF frames < 0
     THEN /\ fatal' = TRUE
          /\ log' = "write failed"
          /\ pc' = "drain"
          /\ UNCHANGED i
     ELSE /\ log' = IF IsShortWrite(frames, buffSampleCount)
                    THEN "short write" ELSE "all good"
          /\ i' = i + 1
          /\ pc' = "outer"
          /\ UNCHANGED fatal
  /\ UNCHANGED << cfgVars, fnVars, handle, j, writePos, writePosReminder,
                  currBuff, frames, spliced, ret, allFull, emitted, convCalls,
                  recoverCalls, drained >>

\* --------------------------------------------------------- specifications
Next ==
  \/ Open
  \/ SetParams
  \/ Normalize
  \/ OptPrepWriteBuffer
  \/ Writei
  \/ Recover
  \/ Drain
  \/ Close
  \/ StereoOuter
  \/ StereoNextFrame
  \/ StereoPassEnd
  \/ StereoCheck
  \/ OptOuter
  \/ OptNextFrame
  \/ OptPassEnd
  \/ OptCheck
  \/ MonoLoop
  \/ MonoCheck

Spec == Init /\ [][Next]_vars

\* main is one thread and every call of the sink returns: a program that can
\* take a step takes one.
SpecLive == Init /\ [][Next]_vars /\ WF_vars(Next)

\* minPcmStereo as it is built (96000 samples, frames of 1152 x 2 samples,
\* 30 passes) on a sink that accepts every frame in full.
ReferenceConfig ==
  [prog |-> "minPcmStereo", SAMPLE_RATE |-> BUFFER_SIZE \div AUD_CHANNELS,
   PROC_FRAME_SIZE |-> PROC_SIN_FRAME_SIZE, SAMPLES_PER_SINE |-> 0,
   PLAYBACK_TIME_SEC |-> StereoSimulationDurSec]

InitRef == \E le \in BOOLEAN : InitState(ReferenceConfig, le) /\ NoCall

NextRef ==
  \/ Open
  \/ SetParams
  \/ Normalize
  \/ WriteiFull
  \/ Drain
  \/ Close
  \/ StereoOuter
  \/ StereoNextFrame
  \/ StereoPassEnd
  \/ StereoCheck

SpecRef == InitRef /\ [][NextRef]_vars

\* Every configuration that can be built: the static_asserts of namespace
\* params hold for minPcmStereoOpt; nothing relates PROC_SIN_FRAME_SIZE to
\* BUFFER_SIZE in minPcmStereo, nor PROC_FRAME_SIZE to SAMPLE_RATE in
\* minPcmStereoOpt.
Builds(p) ==
  CASE p.prog = "minPcmStereo" -> p.SAMPLES_PER_SINE = 0
    [] p.prog = "minPcmStereoOpt" ->
         p.SAMPLES_PER_SINE >= 2 /\ p.PROC_FRAME_SIZE % p.SAMPLES_PER_SINE = 0
    [] OTHER -> p.PROC_FRAME_SIZE = p.SAMPLE_RATE /\ p.SAMPLES_PER_SINE = 0

InitAnyConfig ==
  \E p \in Configs, le \in BOOLEAN : Builds(p) /\ InitState(p, le) /\ NoCall

SpecAnyConfig == InitAnyConfig /\ [][Next]_vars

\* ------------------------------------------------- the functions alone
\* The variables of main that a function taken alone leaves as they are.
mainVars == << params, pc, handle, i, j, writePos, writePosReminder, currBuff,
               frames, log, spliced, ret, prev, fatal, allFull, emitted,
               recoverCalls, drained >>

\* Buffers of up to MaxLen elements are normalised up to MaxCalls times.
MaxLen == 2

MaxCalls == 2

\* uint16_t values with equal, different, zero and all-ones bytes.
EdgeWords == {0, 1, 255, 256, 4660, 32768, 43981, 65535}

RECURSIVE SeqsUpTo(_, _)
SeqsUpTo(S, n) ==
  IF n = 0 THEN {<< >>}
  ELSE LET shorter == SeqsUpTo(S, n - 1)
       IN  shorter \cup {Append(b, x) : b \in shorter, x \in S}

\* Every buffer of one uint16_t, and the longer ones over EdgeWords.
Buffers == {<< x >> : x \in 0..65535} \cup SeqsUpTo(EdgeWords, MaxLen)

\* std::for_each(begin, end, [](uint16_t& i) { i = htons(i); })
convToBigEndian(buff, littleEndian) ==
  [k \in 1..Len(buff) |-> htons(buff[k], littleEndian)]

\* if(runningOnLittleEndianHost()) convToBigEndian(_buffer), on the buffer
\* as the last call has left it.
EndiannessNormalize ==
  /\ convCalls < MaxCalls
  /\ LET buff == IF res = << >> THEN arg[1] ELSE res[1]
     IN  IF runningOnLittleEndianHost(hostLittleEndian)
         THEN /\ res' = << convToBigEndian(buff, hostLittleEndian) >>
              /\ convCalls' = convCalls + 1
         ELSE /\ res' = << buff >>
              /\ UNCHANGED convCalls
  /\ UNCHANGED << mainVars, hostLittleEndian, arg >>

InitNormalizer ==
  \E le \in BOOLEAN, b \in Buffers :
    InitState(ReferenceConfig, le) /\ arg = << b >> /\ res = << >>

SpecNormalizer == InitNormalizer /\ [][EndiannessNormalize]_vars

\* getTruncatedSample taken alone.  Its argument is an int32_t in the 24-bit
\* range: for every value of (x + 128) >> 8 the least and the greatest x that
\* give it, the ends and the middle of the range, and the samples of the tone.
INT24_MAX == 8388607

Inputs24 ==
  {x \in {q * 256 + r - 128 : q \in -32768..32768, r \in {0, 255}} :
     x >= -INT24_MAX - 1 /\ x <= INT24_MAX}
    \cup {int24Sine[k] : k \in 1..Len(int24Sine)}
    \cup {-INT24_MAX - 1, -1, 0, 1, INT24_MAX}

BitDepthConfig ==
  [prog |-> "minPcmBitDepthConv", SAMPLE_RATE |-> 48000, PROC_FRAME_SIZE |-> 48000,
   SAMPLES_PER_SINE |-> 0, PLAYBACK_TIME_SEC |-> 20]

\* _buffer[a] = (short) getTruncatedSample(INT24_MAX * amplitudeVal)
GetTruncatedSample ==
  /\ res = << >>
  /\ res' = << getTruncatedSample(arg[1]) >>
  /\ UNCHANGED << mainVars, hostLittleEndian, convCalls, arg >>

\* The function does not read the byte order of the host.
InitReducer ==
  \E x \in Inputs24 :
    InitState(BitDepthConfig, TRUE) /\ arg = << x >> /\ res = << >>

SpecReducer == InitReducer /\ [][GetTruncatedSample]_vars

\* The fill of the stereo buffers taken alone: the loop of minPcmStereo over
\* _buffer and fillBuffer of minPcmStereoOpt, for the configurations of Spec
\* and for the two programs as they are built.
OptReferenceConfig ==
  [prog |-> "minPcmStereoOpt", SAMPLE_RATE |-> 48000, PROC_FRAME_SIZE |-> 1152,
   SAMPLES_PER_SINE |-> 48000 \div SINE_FREQ, PLAYBACK_TIME_SEC |-> 40]

FillConfigs ==
  {p \in Configs : ValidConfig(p) /\ p.prog \in {"minPcmStereo", "minPcmStereoOpt"}}
    \cup {ReferenceConfig, OptReferenceConfig}

\* The slots the fill has to write: BUFFER_SIZE (a = 2 * iii, iii below
\* _samplingRate) in minPcmStereo, SINES_IN_FRAME periods of AUD_CHANNELS
\* slots a sample in minPcmStereoOpt.
SlotsToFill(p) ==
  IF p.prog = "minPcmStereoOpt"
  THEN SINES_IN_FRAME(p) * p.SAMPLES_PER_SINE * AUD_CHANNELS
  ELSE p.SAMPLE_RATE * 2

\* The length of the buffer when a slots are written: _buffer is an array of
\* BUFFER_SIZE elements, the vector buf grows with every push_back.
FillLength(p, a) == IF p.prog = "minPcmStereoOpt" THEN a ELSE BufferSize(p)

\* The element at index idx (from 0) when a slots are written: _buffer
\* starts as {0}.
FillAt(p, a, idx) == IF idx < a THEN GeneratedAt(p, idx) ELSE 0

\* One mono sample is written to the next AUD_CHANNELS slots: an iteration
\* of the fill loop of minPcmStereo, or of the for_each of fillBuffer.
FillStep ==
  /\ res[1] < SlotsToFill(arg[1])
  /\ res' = << res[1] + AUD_CHANNELS >>
  /\ UNCHANGED << mainVars, hostLittleEndian, convCalls, arg >>

InitFill ==
  \E p \in FillConfigs, le \in BOOLEAN :
    InitState(p, le) /\ arg = << p >> /\ res = << 0 >>

SpecFill == InitFill /\ [][FillStep]_vars

\* ------------------------------------------------------------------ claims
FrameSamples == writeFrameSize * AUD_CHANNELS

\* The ring element a cyclic reading meets n samples after offset 0.
RingAt(n) == BufAt(n % buffSampleCount)

\* C1: while the sink accepts every frame in full, the k-th frame minPcmStereo
\* hands to it (k = emitted) is the ring read cyclically from sample
\* (k - 1) x frameLength x channelCount: the j-th delivered sample is
\* ring[j mod capacity], across wraps and passes.
PhaseContinuity ==
  (IsStereo /\ pc = "check" /\ allFull) =>
    /\ Len(currBuff) = FrameSamples
    /\ \A k \in 1..Len(currBuff) :
         currBuff[k] = RingAt((emitted - 1) * FrameSamples + (k - 1))

\* C2: every frame minPcmStereo emits holds frameLength x channelCount
\* samples with frame[k] = ring[(cursor + k) mod capacity]; it is the
\* contiguous view when cursor + frame <= capacity and otherwise the tail
\* ring[cursor, capacity) followed by the head ring[0, headCount), with
\* headCount = frame - tailCount kept in writePosReminder; no element outside
\* the ring (written 65536) is read.
FrameIsRingSlice ==
  (IsStereo /\ pc = "writei") =>
    LET tailCount == buffSampleCount - writePos
        headCount == FrameSamples - tailCount
    IN  /\ writePos >= 0 /\ writePos < buffSampleCount
        /\ Len(currBuff) = FrameSamples
        /\ \A k \in 1..FrameSamples :
             /\ currBuff[k] = buffer[((writePos + k - 1) % buffSampleCount) + 1]
             /\ currBuff[k] \in 0..65535
        /\ IF writePos + FrameSamples <= buffSampleCount
           THEN /\ ~spliced
                /\ currBuff = SubSeq(buffer, writePos + 1, writePos + FrameSamples)
           ELSE /\ spliced
                /\ currBuff = SubSeq(buffer, writePos + 1, buffSampleCount)
                                 \o SubSeq(buffer, 1, headCount)
                /\ writePosReminder = headCount

\* A splice emitted at a cursor a short write has left behind.
SpliceAfterShortWrite ==
  /\ IsStereo /\ pc = "writei" /\ spliced
  /\ prev.valid /\ IsShortWrite(prev.ret, writeFrameSize)
  /\ writePos = prev.pos + prev.ret * 2
  /\ writePos % (writeFrameSize * 2) # 0

\* C3 as stated: with capacity 96000 the frames of the first pass start at
\* 0, 1152, 2304, ... and the frame starting at cursor 95232 splices 768 tail
\* samples with 384 head samples, the next cursor being 384.
CursorScenarioAsStated ==
  (IsStereo /\ pc = "writei") =>
    /\ (i = 0 => writePos = emitted * 1152)
    /\ (writePos = 95232 =>
          /\ spliced
          /\ LastBuffSamplesAmount(buffSampleCount, writePos) = 768
          /\ writePosReminder = 384)

\* C3 amended: the cursor starts at 0 and a pass starts where the last splice
\* left writePosReminder, so after a spliced frame accepted in full the next
\* frame is emitted at headCount.  With capacity 96000 and frames of 1152
\* stereo frames (2304 samples) the frames of the first pass start at
\* 0, 2304, 4608, ...; the frame at 94464 splices 1536 tail samples with 768
\* head samples and the next cursor is 768; the frame at 95232 (second pass)
\* splices 768 tail samples with 1536 head samples and the next cursor is 1536.
CursorScenario ==
  /\ (pc = "open" => writePos = 0 /\ writePosReminder = 0)
  /\ (IsStereo /\ pc = "writei") =>
       /\ (i = 0 => writePos = emitted * 2304)
       /\ (writePos = 94464 =>
             /\ spliced
             /\ LastBuffSamplesAmount(buffSampleCount, writePos) = 1536
             /\ writePosReminder = 768)
       /\ (writePos = 95232 =>
             /\ spliced
             /\ LastBuffSamplesAmount(buffSampleCount, writePos) = 768
             /\ writePosReminder = 1536)
       /\ (prev.valid /\ prev.spliced /\ prev.ret = writeFrameSize =>
             /\ writePos = prev.head
             /\ prev.head = prev.pos + FrameSamples - buffSampleCount)

\* The second pass emits the spliced frame at cursor 95232.
SpliceAt95232 ==
  IsStereo /\ pc = "writei" /\ i = 1 /\ writePos = 95232 /\ spliced

\* C4: once a recovery has failed no further write is issued.
NoWriteAfterFatal == ~(fatal /\ pc = "writei")

\* C5: a program that has opened the device does not end with the device
\* still open, and a program that played has drained before it closed.
ReleasedOnEveryExit ==
  /\ (pc \in {"exit", "done"} => handle # "open")
  /\ (handle = "closed" => drained)

\* C6: after minPcmStereo has written a contiguous-view frame of which the
\* sink accepted n frames, 0 <= n <= frameLength, the cursor has advanced by
\* n x channelCount samples: the next frame emitted begins at the first
\* sample of the ring the sink did not consume.
ViewWriteAdvancesByAccepted ==
  (IsStereo /\ pc = "writei" /\ prev.valid /\ ~prev.spliced /\ prev.ret >= 0) =>
    writePos = (prev.pos + prev.ret * AUD_CHANNELS) % buffSampleCount

\* C7 as stated: after a spliced frame of which the sink accepted fewer
\* frames than requested, the next frame is emitted at headCount.
SpliceShortWriteGoesToHead ==
  (/\ IsStereo /\ pc = "writei" /\ prev.valid /\ prev.spliced
   /\ prev.ret >= 0 /\ prev.ret < writeFrameSize) =>
    writePos = prev.head

\* C7 amended: after a spliced frame of which the sink accepted n frames,
\* 0 <= n < frameLength, the next frame is emitted at headCount when
\* n x channelCount >= tailCount (the pass is over), and at
\* cursor + n x channelCount, in the same pass and as a splice again, when
\* n x channelCount < tailCount.
SpliceShortWriteCursor ==
  (/\ IsStereo /\ pc = "writei" /\ prev.valid /\ prev.spliced
   /\ prev.ret >= 0 /\ prev.ret < writeFrameSize) =>
    LET tailCount == buffSampleCount - prev.pos
        headCount == FrameSamples - tailCount
    IN  /\ prev.head = headCount
        /\ IF prev.ret * AUD_CHANNELS >= tailCount
           THEN writePos = headCount
           ELSE writePos = prev.pos + prev.ret * AUD_CHANNELS /\ spliced

\* A short write of a splice after which the loop stays in the pass.
SpliceShortWriteStaysInPass ==
  /\ IsStereo /\ pc = "writei" /\ prev.valid /\ prev.spliced
  /\ IsShortWrite(prev.ret, writeFrameSize)
  /\ writePos = prev.pos + prev.ret * AUD_CHANNELS
  /\ writePos # prev.head

\* C8: after a write of minPcmStereo that returned a negative code, whether
\* or not the recovery succeeded, the ring and the cursor (in the pass and as
\* carried to the next pass) are what they were, so the frame that was not
\* delivered is the one the next write attempt emits.
FailedWriteKeepsCursor ==
  (IsStereo /\ pc = "writei" /\ prev.valid /\ prev.ret < 0) =>
    /\ writePos = prev.pos
    /\ writePosReminder = prev.reminder
    /\ convCalls = prev.conv

\* C9 as stated: every write that returned r with 0 <= r < requested is
\* reported as a short write.
EveryShortReturnLogged ==
  (prev.valid /\ prev.ret >= 0 /\ prev.ret < prev.requested) =>
    log = "short write"

\* C9 amended: a write that returned r with 0 < r < requested is reported as
\* a short write; r = 0 is not reported as one (it is treated like a full
\* write: nothing is printed by the stereo programs, "ALL GOOD" by the mono
\* ones); for every r >= 0 the loop goes on; the recovery is called only
\* after a negative return.
ShortWriteClassification ==
  /\ [](prev.valid =>
          /\ (prev.ret > 0 /\ prev.ret < prev.requested => log = "short write")
          /\ (prev.ret = 0 \/ prev.ret = prev.requested =>
                 log = IF IsMono THEN "all good" ELSE "none")
          /\ (prev.ret < 0 /\ prev.frames < 0 => log = "write failed"))
  /\ [](pc = "recover" \/ recoverCalls > 0 => ret < 0)
  /\ [][pc = "check" /\ ret >= 0 =>
          /\ pc' \in {"inner", "outer"}
          /\ fatal' = fatal
          /\ (IsMono => i' = i + 1)
          /\ (~IsMono => i' = i)]_vars

\* A write returned 0 frames and was not reported as a short write.
ZeroReturnNotLogged ==
  prev.valid /\ prev.ret = 0 /\ prev.requested > 0 /\ log # "short write"

\* The index of the fill (from 0) a sample of the frame comes from.
SourceIndex(k) ==
  IF IsStereo THEN (writePos + k - 1) % buffSampleCount ELSE k - 1

\* C10: in every program the buffer is normalised once, before the first
\* write, and not touched during playback (convToBigEndian has run once on a
\* little-endian host; on a big-endian host it has not run, or has run once
\* as a no-op in minPcmStereoOpt); every element is the generated sample
\* with its bytes swapped on a little-endian host and unchanged on a
\* big-endian one, and every sample given to the sink, from a view or a
\* splice, reads on the wire as the generated 16-bit sample, big-endian.
WireByteOrder ==
  /\ (pc \in {"outer", "inner", "writei", "recover", "check", "drain", "close", "done"} =>
        /\ convCalls = IF IsOpt \/ hostLittleEndian THEN 1 ELSE 0
        /\ \A idx \in 0..(buffSampleCount - 1) :
             BufAt(idx) = IF hostLittleEndian
                          THEN Swap16(GeneratedAt(params, idx))
                          ELSE GeneratedAt(params, idx))
  /\ (pc \in {"open", "set_params", "prepare"} => convCalls = 0 /\ currBuff = << >>)
  /\ (pc \in {"writei", "recover", "check"} =>
        /\ Len(currBuff) = IF IsMono THEN buffSampleCount ELSE FrameSamples
        /\ \A k \in 1..Len(currBuff) :
             /\ currBuff[k] \in 0..65535
             /\ WireSample(currBuff[k], hostLittleEndian)
                  = GeneratedAt(params, SourceIndex(k)))

\* A little-endian host gives the sink a spliced frame whose samples were
\* swapped in memory.
SwappedSpliceOnWire ==
  /\ hostLittleEndian /\ IsStereo /\ pc = "writei" /\ spliced
  /\ \E k \in 1..Len(currBuff) :
       currBuff[k] # GeneratedAt(params, SourceIndex(k))

\* C11: normalising a buffer twice on a little-endian host gives the buffer
\* back, element for element, one normalisation having exchanged the high and
\* the low byte of every element; on a big-endian host the normalisation
\* leaves the buffer as it is.
NormalizeInvolution ==
  (res # << >>) =>
    LET orig == arg[1]
        out == res[1]
    IN  /\ Len(out) = Len(orig)
        /\ (~hostLittleEndian => out = orig /\ convCalls = 0)
        /\ (hostLittleEndian /\ convCalls % 2 = 0 => out = orig)
        /\ (hostLittleEndian /\ convCalls % 2 = 1 =>
              \A k \in 1..Len(orig) :
                /\ out[k] \in 0..65535
                /\ out[k] % 256 = orig[k] \div 256
                /\ out[k] \div 256 = orig[k] % 256)

\* A buffer whose first normalisation changed it has been normalised twice.
NormalizedTwice ==
  /\ hostLittleEndian /\ convCalls = 2 /\ res # << >>
  /\ Len(arg[1]) = 2
  /\ convToBigEndian(arg[1], TRUE) # arg[1]

\* C12: for x in [-8388608, 8388607] getTruncatedSample(x) is
\* damp(clamp16(floor((x + 128) / 256))): the shift is the floor, the result of
\* the shift is limited to [-32768, 32767] and then multiplied by 29204 and
\* divided by 32768 toward zero; 0 gives 0, the greatest input gives 29203,
\* the least gives -29204, and every result is a 16-bit value.
BitDepthReduction ==
  (res # << >>) =>
    LET x == arg[1]
        y == res[1]
        s == (x + 128) \div 256
        c == IF s > 32767 THEN 32767 ELSE IF s < -32768 THEN -32768 ELSE s
    IN  /\ x \in (-INT24_MAX - 1)..INT24_MAX
        /\ s * 256 <= x + 128 /\ x + 128 < (s + 1) * 256
        /\ (c >= 0 => y >= 0 /\ y * 32768 <= c * 29204 /\ c * 29204 < (y + 1) * 32768)
        /\ (c < 0 => y <= 0 /\ (y - 1) * 32768 < c * 29204 /\ c * 29204 <= y * 32768)
        /\ y \in -32768..32767
        /\ (x = 0 => y = 0)
        /\ (x = INT24_MAX => y = 29203)
        /\ (x = -INT24_MAX - 1 => y = -29204)

\* The greatest input is shifted to 32768, limited to 32767 and damped.
ClampedThenDamped ==
  /\ res # << >> /\ arg[1] = INT24_MAX
  /\ (arg[1] + 128) \div 256 = 32768
  /\ res[1] = 29203

\* The mono samples of the tone in one period: 48 in minPcmStereo.
PeriodLength(p) ==
  IF p.prog = "minPcmStereoOpt" THEN p.SAMPLES_PER_SINE ELSE Len(monoSine1kHzLoopUp)

\* The fill has written the whole buffer.
Filled == res[1] = SlotsToFill(arg[1])

\* The element at index idx of the buffer as far as it is filled.
RingSlot(idx) == FillAt(arg[1], res[1], idx)

\* The mono sample written last.
LastMono == (res[1] \div AUD_CHANNELS) - 1

\* The mono sample written last fills AUD_CHANNELS consecutive slots with
\* one value.
ChannelsAlike ==
  \A o \in 0..(AUD_CHANNELS - 1) :
    RingSlot(LastMono * AUD_CHANNELS + o) = RingSlot(LastMono * AUD_CHANNELS)

\* C13 as stated: the buffer filled from the mono period holds one second,
\* sampleRate x channelCount samples; ring[p] = ring[p mod (periodLength x
\* channelCount)] for every p; every mono sample fills channelCount
\* consecutive slots with one value.
SampleReplicationAsStated ==
  LET p == arg[1]
      period == PeriodLength(p) * AUD_CHANNELS
  IN  /\ (Filled => FillLength(p, res[1]) = p.SAMPLE_RATE * AUD_CHANNELS)
      /\ (res[1] > 0 =>
            /\ ChannelsAlike
            /\ \A k \in (res[1] - AUD_CHANNELS)..(res[1] - 1) :
                 RingSlot(k) = RingSlot(k % period))

\* The mono samples of the stereo buffer that are not the sample one or more
\* periods before them.
Drifted ==
  {m \in 0..LastMono : RingSlot(m * AUD_CHANNELS) # RingSlot((m % 48) * AUD_CHANNELS)}

\* C13 amended: every mono sample fills channelCount consecutive slots with
\* one value.  The buffer of minPcmStereo holds one second, sampleRate x
\* channelCount samples, every sample computed from its own angle: ring[p] is
\* ring[p mod 96] or differs from it by one, and as it is built 1821 of its
\* 48000 mono samples differ, the first of them being sample 24666.  The
\* buffer of minPcmStereoOpt holds one write-frame, SINES_IN_FRAME x
\* periodLength x channelCount = PROC_FRAME_SIZE x channelCount samples, and
\* ring[p] = ring[p mod (periodLength x channelCount)] for every p.
SampleReplication ==
  LET p == arg[1]
      period == PeriodLength(p) * AUD_CHANNELS
      written == (res[1] - AUD_CHANNELS)..(res[1] - 1)
  IN  /\ (res[1] > 0 =>
            /\ ChannelsAlike
            /\ \A k \in written : RingSlot(k) \in 0..65535
            /\ (p.prog = "minPcmStereo" =>
                  \A k \in written :
                    ToInt16(RingSlot(k)) - ToInt16(RingSlot(k % period)) \in {-1, 0, 1})
            /\ (p.prog = "minPcmStereoOpt" =>
                  \A k \in written : RingSlot(k) = RingSlot(k % period))
            /\ (p = ReferenceConfig /\ LastMono < 24666 =>
                  \A k \in written : RingSlot(k) = RingSlot(k % period)))
      /\ (Filled =>
            /\ (p.prog = "minPcmStereo" =>
                  FillLength(p, res[1]) = p.SAMPLE_RATE * AUD_CHANNELS)
            /\ (p.prog = "minPcmStereoOpt" =>
                  /\ FillLength(p, res[1]) = SINES_IN_FRAME(p) * p.SAMPLES_PER_SINE * AUD_CHANNELS
                  /\ FillLength(p, res[1]) = p.PROC_FRAME_SIZE * AUD_CHANNELS)
            /\ (p = ReferenceConfig =>
                  /\ FillLength(p, res[1]) = BUFFER_SIZE
                  /\ Cardinality(Drifted) = 1821
                  /\ 24666 \in Drifted))

\* The fill of minPcmStereo has written a sample that is not the sample of
\* the first period.
DriftedSampleWritten ==
  /\ arg[1] = ReferenceConfig /\ LastMono = 24666
  /\ RingSlot(24666 * 2) # RingSlot((24666 % 48) * 2)
  /\ RingSlot(24666 * 2 + 1) = RingSlot(24666 * 2)

\* C14: a configuration whose write-frame, frameLength x channelCount
\* samples, is longer than the ring of sampleRate x channelCount samples is
\* rejected at construction: no frame is given to the sink and no element
\* outside the buffer (written 65536) is read.
ConfigurationValidated ==
  (~IsMono /\ FrameSamples > params.SAMPLE_RATE * AUD_CHANNELS) =>
    /\ pc # "writei"
    /\ \A k \in 1..Len(currBuff) : currBuff[k] \in 0..65535

\* C15: the period of the tone has sampleRate / toneFrequency = 48 samples
\* (the array monoSine1kHzLoopUp of both stereo programs, SAMPLES_PER_SINE
\* of minPcmStereoOpt), and every sample the stereo programs put into their
\* buffers has a magnitude of at most 23198, 32767 damped by 3 dB: no sample
\* is 32767 or -32768.
PeriodShape ==
  LET p == arg[1]
  IN  /\ Len(monoSine1kHzLoopUp) = 48
      /\ (p \in {ReferenceConfig, OptReferenceConfig} =>
            /\ p.SAMPLE_RATE % SINE_FREQ = 0
            /\ PeriodLength(p) = p.SAMPLE_RATE \div SINE_FREQ
            /\ PeriodLength(p) = Len(monoSine1kHzLoopUp))
      /\ (res[1] > 0 =>
            \A k \in (res[1] - AUD_CHANNELS)..(res[1] - 1) :
              LET sample == ToInt16(RingSlot(k))
              IN  /\ sample <= DUMPING_FACTOR_IN_SHORTS
                  /\ -sample <= DUMPING_FACTOR_IN_SHORTS
                  /\ sample \notin {32767, -32768})

\* The fill of minPcmStereo has written the peak of the tone.
PeakWritten ==
  /\ arg[1] = ReferenceConfig /\ LastMono = 12
  /\ ToInt16(RingSlot(24)) = 23197

\* C16: on a sink that accepts every frame in full, minPcmStereo has
\* delivered i traversals of the ring (to within the frame that straddles the
\* end of the i-th) when i passes are over, and _simulationDurSec seconds,
\* 30 x 48000 stereo frames, when the loops are left.
PlaybackDuration ==
  (IsStereo /\ allFull) =>
    /\ (pc = "outer" =>
          /\ emitted * FrameSamples >= i * buffSampleCount
          /\ emitted * FrameSamples < i * buffSampleCount + FrameSamples)
    /\ (pc \in {"drain", "close", "done"} =>
          emitted * writeFrameSize = simulationDurSec * params.SAMPLE_RATE)

\* The value of the tone at the mono sample written last, in thousandths.
LastValue1000 == dampedSine1000[(LastMono % 48) + 1]

\* round-to-nearest of a value given in thousandths, limited to 16 bits.
RoundClamp16(thousandths) ==
  LET r == IF thousandths >= 0 THEN (thousandths + 500) \div 1000
           ELSE -((500 - thousandths) \div 1000)
  IN  IF r > 32767 THEN 32767 ELSE IF r < -32768 THEN -32768 ELSE r

\* The samples of the first period, as the stereo programs write them.
InFirstPeriod == res[1] > 0 /\ LastMono < PeriodLength(arg[1])

\* C17 as stated: every sample of the period, in the buffer of minPcmStereo
\* and in the table of minPcmStereoOpt, is 32767 x damping x sin(angle)
\* rounded to the nearest integer.
SynthesizerRoundsToNearest ==
  InFirstPeriod =>
    \A o \in 0..(AUD_CHANNELS - 1) :
      ToInt16(RingSlot(LastMono * AUD_CHANNELS + o)) = RoundClamp16(LastValue1000)

\* C17 amended: every sample of the period is 32767 x damping x sin(angle)
\* with the fraction discarded (truncated toward zero, as static_cast does),
\* which is within the 16-bit range without a clamp; the buffer minPcmStereo
\* generates and the table of minPcmStereoOpt hold exactly these values, 32
\* of the 48 being one nearer to zero than the rounded value.
SynthesizerTruncates ==
  /\ InFirstPeriod =>
       \A o \in 0..(AUD_CHANNELS - 1) :
         LET sample == ToInt16(RingSlot(LastMono * AUD_CHANNELS + o))
             v == LastValue1000
         IN  /\ sample = monoSine1kHzLoopUp[LastMono + 1]
             /\ sample \in -32767..32767
             /\ (v >= 0 => sample * 1000 <= v /\ v < (sample + 1) * 1000)
             /\ (v <= 0 => sample * 1000 >= v /\ v > (sample - 1) * 1000)
             /\ RoundClamp16(v) - sample \in {-1, 0, 1}
  /\ Cardinality({k \in 1..48 :
                    monoSine1kHzLoopUp[k] # RoundClamp16(dampedSine1000[k])}) = 32

\* minPcmStereoOpt has written the second sample of its table, 3027, where
\* the rounded value is 3028.
TruncatedSampleWritten ==
  /\ arg[1] = OptReferenceConfig /\ LastMono = 1
  /\ ToInt16(RingSlot(2)) = 3027
  /\ RoundClamp16(LastValue1000) = 3028

\* C18: in every program a write that returned a negative code is followed
\* by one call of snd_pcm_recover, and by no second one, before the next
\* write is issued, and a write that returned no negative code by none; when
\* the recovery has succeeded, the next write of minPcmStereo is issued at
\* the cursor of the failed one, with writePosReminder as it was and the same
\* samples of the ring in the frame.
RecoveryProtocol ==
  /\ recoverCalls \in {0, 1}
  /\ (pc = "recover" => ret < 0 /\ recoverCalls = 0)
  /\ (pc = "check" => recoverCalls = IF ret < 0 THEN 1 ELSE 0)
  /\ (pc = "writei" /\ prev.valid => recoverCalls = IF prev.ret < 0 THEN 1 ELSE 0)
  /\ (IsStereo /\ pc = "writei" /\ prev.valid /\ prev.ret < 0 /\ prev.frames >= 0) =>
       /\ prev.frames = 0
       /\ writePos = prev.pos
       /\ spliced = prev.spliced
       /\ writePosReminder = prev.reminder
       /\ Len(currBuff) = FrameSamples
       /\ \A k \in 1..FrameSamples :
            currBuff[k] = buffer[((prev.pos + k - 1) % buffSampleCount) + 1]

\* minPcmStereo issues the write of a spliced frame again after a recovery
\* that succeeded.
FrameReemittedAfterRecovery ==
  /\ IsStereo /\ pc = "writei" /\ prev.valid
  /\ prev.ret < 0 /\ prev.frames = 0 /\ recoverCalls = 1
  /\ writePos = prev.pos /\ writePos > 0 /\ spliced

\* C19: whatever the sink has returned so far, minPcmStereo emits every
\* frame at a cursor with 0 <= cursor < capacity that is a multiple of
\* channelCount, and so is the cursor kept for the next pass: the frame
\* starts on a channel-0 sample and every pair of slots in it holds the two
\* channels of one mono sample.
CursorOnChannelZero ==
  /\ IsStereo => /\ writePos >= 0 /\ writePos % AUD_CHANNELS = 0
                 /\ writePosReminder >= 0 /\ writePosReminder % AUD_CHANNELS = 0
                 /\ writePosReminder < buffSampleCount
  /\ (IsStereo /\ pc = "writei") =>
       /\ writePos < buffSampleCount
       /\ Len(currBuff) = FrameSamples
       /\ \A m \in 0..(writeFrameSize - 1) :
            LET src == (writePos + m * AUD_CHANNELS) % buffSampleCount
            IN  /\ src % AUD_CHANNELS = 0
                /\ currBuff[m * AUD_CHANNELS + 1] = BufAt(src)
                /\ currBuff[m * AUD_CHANNELS + 2] = BufAt(src + 1)

\* A frame is emitted at a cursor that an odd number of accepted frames has
\* left off the frame grid.
CursorOffFrameGrid ==
  /\ IsStereo /\ pc = "writei" /\ prev.valid
  /\ prev.ret > 0 /\ prev.ret % 2 = 1 /\ prev.ret < writeFrameSize
  /\ writePos = prev.pos + prev.ret * AUD_CHANNELS
  /\ writePos % FrameSamples # 0

\* A write of minPcmStereo has ended with no frame accepted: it returned 0,
\* or failed and was recovered.
ZeroAccepted == IsStereo /\ pc = "check" /\ frames = 0

\* C20: unless the writes of minPcmStereo end with no frame accepted again
\* and again, once the device is set up the program leaves its loops with
\* all _simulationDurSec passes counted, calls snd_pcm_drain once, then
\* snd_pcm_close once, and ends.  A mono program issues a write only while
\* i < _simulationDurSec, and every write is followed by i++ or by the break
\* to the drain, so it issues at most _simulationDurSec writes whatever the
\* sink returns.
Termination ==
  /\ (<>[](~ZeroAccepted)) => ((IsStereo /\ pc = "prepare") ~> (pc = "done"))
  /\ [](IsStereo /\ pc \in {"drain", "close", "done"} => i = simulationDurSec)
  /\ [](pc = "drain" => ~drained /\ handle = "open")
  /\ [](pc = "close" => drained /\ handle = "open")
  /\ [](pc = "done" => drained /\ handle = "closed")
  /\ [][(pc = "drain" \/ pc = "close" \/ pc = "done") =>
          (pc' = "close" \/ pc' = "done")]_vars
  /\ [](IsMono /\ pc \in {"writei", "recover", "check"} => i < simulationDurSec)
  /\ [][IsMono /\ pc = "check" =>
          \/ pc' = "outer" /\ i' = i + 1
          \/ pc' = "drain" /\ i' = i /\ frames < 0]_vars
  /\ [][IsMono /\ pc # "check" => i' = i]_vars

\* minPcmStereo has ended after short writes and a failed recovery, drained
\* and closed.
StereoEndedAfterFailures ==
  /\ IsStereo /\ pc = "done" /\ i = simulationDurSec
  /\ fatal /\ ~allFull /\ drained /\ handle = "closed"
  /\ prev.valid /\ prev.ret > 0

====
